---------------------------- MODULE Spec2Model ----------------------------
(***************************************************************************)
(* Model of the alphamon-rs C-Plus protocol client: the response decoders  *)
(* of src/src/model/cplus.rs and the two framed query engines (serial and  *)
(* USB HID) of src/src/device/cplus.rs.                                    *)
(*                                                                         *)
(* Bytes are naturals 0..255.  A Rust String is a sequence of code points; *)
(* 65533 is U+FFFD, the replacement character of from_utf8_lossy.          *)
(***************************************************************************)
EXTENDS Integers, Sequences, FiniteSets, TLC

VARIABLES
  \* ---- pure decoders (FromBytes implementations)
  dpc,        \* "input" before a decoder ran, "done" after
  dkind,      \* which decoder ran
  din,        \* the byte slice given to from_bytes
  dout,       \* what from_bytes returned
  \* ---- CPlusSerialInterface
  spc,        \* position inside processed_query / raw_query
  squery,     \* the query method that was called
  rx,         \* bytes buffered by the serial port, not yet read
  acc,        \* read_data's accumulator `buf`
  ops,        \* transport operations performed by the current query, in order
  delivered,  \* bytes the device put on the line after the current command
  readFailed, \* read_exact returned an error during the current query
  sframe,     \* <<>> or <<f>>: the slice processed_query handed to from_bytes
  sres,       \* what the query method returned
  startLen,   \* history: how many bytes rx held when the current query began
  \* ---- CPlusHidInterface
  hpc,        \* "idle", "poll" (inside read_data's loop) or "done"
  hquery,     \* the query method that was called
  hbuf,       \* read_processed_data's reusable buffer
  hrep,       \* bytes of the feature report delivered by the latest read
  hreads,     \* number of get_feature_report calls of the current query
  hframe,     \* <<>> or <<f>>: the slice handed to from_bytes
  hres        \* what the query method returned

dvars == <<dpc, dkind, din, dout>>
svars == <<spc, squery, rx, acc, ops, delivered, readFailed, sframe, sres, startLen>>
hvars == <<hpc, hquery, hbuf, hrep, hreads, hframe, hres>>
vars == <<dvars, svars, hvars>>

(***************************************************************************)
(* Bounds of the model.                                                    *)
(***************************************************************************)
\* longest raw byte slice enumerated for the decoders
MaxLen == 5
\* longest response the device puts on the serial line for one command
MaxResp == 4
\* length of the HID buffer in the model (the source allocates 48 bytes)
HidBufLen == 3
\* feature-report reads one HID query may perform in the model
MaxReads == 2

(***************************************************************************)
(* Program constants.                                                      *)
(***************************************************************************)
END_BYTE == 13
DATA_FEATURE_REPORT == 5
STATUS_MSG_PREFIX == 40
RATING_MSG_PREFIX == 35

CMD_STATUS_INQUIRY == <<81, 49>>
CMD_ALARM_INQUIRY == <<81, 52>>
CMD_EXTRA_POWER_PARAMETERS_INFO == <<81, 53>>
CMD_AUTONOMY == <<65, 116>>
CMD_BATTERY_LIFE == <<66, 76>>
CMD_UPS_INFORMATION == <<73>>
CMD_RATING_INFORMATION == <<70>>

Kinds == {"Status", "Alarm", "ExtraPowerInfo", "Autonomy", "BatteryLife",
          "UPSInformation", "UPSRating"}

(***************************************************************************)
(* Result<T, Error> values, and a panic (the call never returns).          *)
(***************************************************************************)
Ok(v) == [tag |-> "Ok", val |-> v]
Err(e) == [tag |-> "Err", err |-> e]
Panic(m) == [tag |-> "Panic", msg |-> m]
NoResult == [tag |-> "None"]

IsOk(r) == r.tag = "Ok"
IsErr(r, e) == r.tag = "Err" /\ r.err = e

(***************************************************************************)
(* Slices and strings.                                                     *)
(***************************************************************************)
\* s[a..b) with Rust's zero-based bounds, as <<>> / <<slice>> for None / Some
GetRange(s, a, b) ==
  IF a <= b /\ b <= Len(s) THEN << SubSeq(s, a + 1, b) >> ELSE <<>>

\* s.get(a..)
GetFrom(s, a) == GetRange(s, a, Len(s))

\* s.iter().position(|&b| b == x): zero-based, -1 for None
Position(s, x) ==
  IF \E i \in 1..Len(s) : s[i] = x
    THEN (CHOOSE i \in 1..Len(s) : s[i] = x /\ \A j \in 1..(i - 1) : s[j] # x) - 1
    ELSE -1

\* a variant of SplitOn that drops empty pieces, as split_whitespace would
SplitOn_SkipEmpty(s, sep) ==
  LET RECURSIVE go(_, _, _)
      go(i, cur, out) ==
        IF i > Len(s) THEN (IF cur = <<>> THEN out ELSE Append(out, cur))
        ELSE IF s[i] = sep
          THEN go(i + 1, <<>>, IF cur = <<>> THEN out ELSE Append(out, cur))
        ELSE go(i + 1, Append(cur, s[i]), out)
  IN go(1, <<>>, <<>>)

\* s.split(|b| *b == sep): one more piece than separators, empty pieces kept
SplitOn(s, sep) ==
  LET RECURSIVE go(_, _, _)
      go(i, cur, out) ==
        IF i > Len(s) THEN Append(out, cur)
        ELSE IF s[i] = sep THEN go(i + 1, <<>>, Append(out, cur))
        ELSE go(i + 1, Append(cur, s[i]), out)
  IN go(1, <<>>, <<>>)

\* s.chunks(n): pieces of n bytes, the last one shorter when n does not divide
Chunks(s, n) ==
  LET RECURSIVE go(_, _)
      go(i, out) ==
        IF i > Len(s) THEN out
        ELSE IF i + n - 1 <= Len(s) THEN go(i + n, Append(out, SubSeq(s, i, i + n - 1)))
        ELSE Append(out, SubSeq(s, i, Len(s)))
  IN go(1, <<>>)

\* String::from_utf8_lossy on bytes that are ASCII or 0xF8..0xFF: an ASCII byte
\* is its own code point, a byte that can start no UTF-8 sequence is U+FFFD
Utf8Lossy(s) == [i \in 1..Len(s) |-> IF s[i] < 128 THEN s[i] ELSE 65533]

\* str::as_bytes: the UTF-8 encoding (U+FFFD is EF BF BD)
AsBytes(t) ==
  LET RECURSIVE go(_, _)
      go(i, out) ==
        IF i > Len(t) THEN out
        ELSE IF t[i] < 128 THEN go(i + 1, Append(out, t[i]))
        ELSE go(i + 1, out \o <<239, 191, 189>>)
  IN go(1, <<>>)

IsWhite(c) == c \in {9, 10, 11, 12, 13, 32}

\* str::trim
Trim(t) ==
  LET keep == {i \in 1..Len(t) : ~IsWhite(t[i])}
  IN IF keep = {} THEN <<>>
     ELSE SubSeq(t, CHOOSE i \in keep : \A j \in keep : i <= j,
                    CHOOSE i \in keep : \A j \in keep : i >= j)

IsDigit(c) == c \in 48..57

RECURSIVE DigitsValue(_)
DigitsValue(t) ==
  IF t = <<>> THEN 0
  ELSE 10 * DigitsValue(SubSeq(t, 1, Len(t) - 1)) + (t[Len(t)] - 48)

\* str::parse::<f32> on strings over digits, '.', '+', '-' and bytes that occur
\* in no float literal: [sign] digits [. digits], at least one digit.  The
\* value is kept as the decimal it denotes: neg, digits m and e fraction digits
\* stand for (-1)^neg * m / 10^e (literals of at most 9 digits).
ParseF32(t) ==
  LET signed == Len(t) > 0 /\ t[1] \in {43, 45}
      body == IF signed THEN SubSeq(t, 2, Len(t)) ELSE t
      dots == {i \in 1..Len(body) : body[i] = 46}
      wellFormed == /\ \A i \in 1..Len(body) : IsDigit(body[i]) \/ body[i] = 46
                    /\ Cardinality(dots) <= 1
                    /\ \E i \in 1..Len(body) : IsDigit(body[i])
      dot == IF dots = {} THEN Len(body) + 1 ELSE CHOOSE i \in dots : TRUE
      digits == SubSeq(body, 1, dot - 1) \o SubSeq(body, dot + 1, Len(body))
  IN IF wellFormed
       THEN Ok([neg |-> signed /\ t[1] = 45, m |-> DigitsValue(digits),
                e |-> Len(body) - dot + (IF dots = {} THEN 1 ELSE 0)])
       ELSE Err("FloatParse")

\* A u32 is the pair <<hi, lo>> of its 16-bit halves and a u64 the tuple
\* <<l3, l2, l1, l0>> of its 16-bit quarters, most significant first, so that
\* every value of the type is representable and no arithmetic leaves the type.
\* str::parse::<u32>: ['+'] digits, at least one digit, value below 2^32
ParseU32(t) ==
  LET body == IF Len(t) > 0 /\ t[1] = 43 THEN SubSeq(t, 2, Len(t)) ELSE t
      RECURSIVE go(_, _, _)
      go(i, hi, lo) ==
        IF i > Len(body) THEN Ok(<<hi, lo>>)
        ELSE LET lo2 == lo * 10 + (body[i] - 48)
                 hi2 == hi * 10 + lo2 \div 65536
             IN IF hi2 >= 65536 THEN Err("IntParse")
                ELSE go(i + 1, hi2, lo2 % 65536)
  IN IF Len(body) > 0 /\ \A i \in 1..Len(body) : IsDigit(body[i])
       THEN go(1, 0, 0)
       ELSE Err("IntParse")

\* a variant of U16FromBeBytes that reads the two bytes little-endian
U16FromBeBytes_LittleEndian(a) == a[2] * 256 + a[1]

\* u16::from_be_bytes
U16FromBeBytes(a) == a[1] * 256 + a[2]

\* u32::from_be_bytes
U32FromBeBytes(a) == << a[1] * 256 + a[2], a[3] * 256 + a[4] >>

\* `x as u64` for a u32 x
U32AsU64(x) == <<0, 0, x[1], x[2]>>

\* x * k in u64 arithmetic for a small k, modulo 2^64
MulU64(x, k) ==
  LET p0 == x[4] * k
      p1 == x[3] * k + p0 \div 65536
      p2 == x[2] * k + p1 \div 65536
      p3 == x[1] * k + p2 \div 65536
  IN << p3 % 65536, p2 % 65536, p1 % 65536, p0 % 65536 >>

\* <[u8; n]>::try_from(slice): the slice must have exactly n bytes
TryIntoArray(s, n) ==
  IF Len(s) = n THEN Ok(s) ELSE Err("InvalidParameterLength")

(***************************************************************************)
(* Battery capacity tables: the match arms of StatusInquiryResponse, in    *)
(* source order, each key spelled as its ASCII bytes.                      *)
(***************************************************************************)
OfflineTable ==
  << << <<49, 51, 46, 53>>, 100 >>, << <<49, 51, 46, 51>>, 90 >>, << <<49, 51, 46, 50>>, 88 >>,
     << <<49, 51, 46, 49>>, 86 >>, << <<49, 51>>, 83 >>, << <<49, 50, 46, 57>>, 80 >>,
     << <<49, 50, 46, 56>>, 77 >>, << <<49, 50, 46, 55>>, 74 >>, << <<49, 50, 46, 54>>, 72 >>,
     << <<49, 50, 46, 53>>, 69 >>, << <<49, 50, 46, 52>>, 66 >>, << <<49, 50, 46, 51>>, 63 >>,
     << <<49, 50, 46, 50>>, 61 >>, << <<49, 50, 46, 49>>, 58 >>, << <<49, 50>>, 55 >>,
     << <<49, 49, 46, 57>>, 52 >>, << <<49, 49, 46, 56>>, 49 >>, << <<49, 49, 46, 55>>, 47 >>,
     << <<49, 49, 46, 54>>, 44 >>, << <<49, 49, 46, 53>>, 41 >>, << <<49, 49, 46, 52>>, 38 >>,
     << <<49, 49, 46, 51>>, 36 >>, << <<49, 49, 46, 50>>, 33 >>, << <<49, 49, 46, 49>>, 30 >>,
     << <<49, 49>>, 27 >>, << <<49, 48, 46, 57>>, 24 >>, << <<49, 48, 46, 56>>, 22 >>,
     << <<49, 48, 46, 55>>, 19 >>, << <<49, 48, 46, 54>>, 16 >>, << <<49, 48, 46, 53>>, 13 >>,
     << <<49, 48, 46, 52>>, 11 >>, << <<49, 48, 46, 51>>, 8 >>, << <<49, 48, 46, 50>>, 5 >>,
     << <<49, 48, 46, 49>>, 2 >>, << <<49, 48>>, 0 >> >>

OnlineTable ==
  << << <<50, 46, 50, 50>>, 100 >>, << <<50, 46, 50, 49>>, 90 >>, << <<50, 46, 50, 48>>, 88 >>,
     << <<50, 46, 49, 57>>, 87 >>, << <<50, 46, 49, 56>>, 85 >>, << <<50, 46, 49, 55>>, 83 >>,
     << <<50, 46, 49, 54>>, 82 >>, << <<50, 46, 49, 53>>, 80 >>, << <<50, 46, 49, 52>>, 78 >>,
     << <<50, 46, 49, 51>>, 77 >>, << <<50, 46, 49, 50>>, 75 >>, << <<50, 46, 49, 49>>, 73 >>,
     << <<50, 46, 49, 48>>, 72 >>, << <<50, 46, 48, 57>>, 70 >>, << <<50, 46, 48, 56>>, 68 >>,
     << <<50, 46, 48, 55>>, 65 >>, << <<50, 46, 48, 54>>, 65 >>, << <<50, 46, 48, 53>>, 62 >>,
     << <<50, 46, 48, 52>>, 62 >>, << <<50, 46, 48, 51>>, 58 >>, << <<50, 46, 48, 50>>, 58 >>,
     << <<50, 46, 48, 49>>, 55 >>, << <<50, 46, 48, 48>>, 55 >>, << <<49, 46, 57, 57>>, 53 >>,
     << <<49, 46, 57, 56>>, 52 >>, << <<49, 46, 57, 55>>, 50 >>, << <<49, 46, 57, 54>>, 48 >>,
     << <<49, 46, 57, 53>>, 47 >>, << <<49, 46, 57, 52>>, 45 >>, << <<49, 46, 57, 51>>, 43 >>,
     << <<49, 46, 57, 50>>, 42 >>, << <<49, 46, 57, 49>>, 40 >>, << <<49, 46, 57, 48>>, 38 >>,
     << <<49, 46, 56, 57>>, 37 >>, << <<49, 46, 56, 56>>, 35 >>, << <<49, 46, 56, 55>>, 33 >>,
     << <<49, 46, 56, 54>>, 32 >>, << <<49, 46, 56, 53>>, 30 >>, << <<49, 46, 56, 52>>, 28 >>,
     << <<49, 46, 56, 51>>, 27 >>, << <<49, 46, 56, 50>>, 25 >>, << <<49, 46, 56, 49>>, 23 >>,
     << <<49, 46, 56, 48>>, 22 >>, << <<49, 46, 55, 57>>, 20 >>, << <<49, 46, 55, 56>>, 18 >>,
     << <<49, 46, 55, 55>>, 17 >>, << <<49, 46, 55, 54>>, 15 >>, << <<49, 46, 55, 53>>, 13 >>,
     << <<49, 46, 55, 52>>, 12 >>, << <<49, 46, 55, 51>>, 10 >>, << <<49, 46, 55, 50>>, 8 >>,
     << <<49, 46, 55, 49>>, 7 >>, << <<49, 46, 55, 48>>, 5 >>, << <<49, 46, 54, 57>>, 3 >>,
     << <<49, 46, 54, 56>>, 2 >>, << <<49, 46, 54, 55>>, 0 >> >>

\* `match battery_capacity_parameter as &str { ... }` over one of the tables
MatchCapacity(table, t) ==
  LET hits == {i \in 1..Len(table) : table[i][1] = t}
  IN IF hits = {} THEN Err("InvalidBatteryCapacityParameter")
     ELSE Ok(table[CHOOSE i \in hits : \A j \in hits : i <= j][2])

(***************************************************************************)
(* The decoders.                                                           *)
(***************************************************************************)
\* UPSStatus::from_bytes
UPSStatusFromBytes(s) ==
  LET f == [i \in 1..Len(s) |-> s[i] = 49]
  IN IF Len(f) # 8 THEN Err("InvalidFormat")
     ELSE Ok([utility_fail |-> f[1], battery_low |-> f[2],
              bypass_or_transformer_active |-> f[3], battery_abnormal |-> f[4],
              offline |-> f[5], test_in_progress |-> f[6],
              shutdown_active |-> f[7], beeper_on |-> f[8]])

\* a variant of BatteryCapacity with the two tables swapped
BatteryCapacity_Swapped(offline, t) ==
  IF offline THEN MatchCapacity(OnlineTable, t) ELSE MatchCapacity(OfflineTable, t)

\* the lookup of lines 67-165, after the flags were decoded
BatteryCapacity(offline, t) ==
  IF offline THEN MatchCapacity(OfflineTable, t) ELSE MatchCapacity(OnlineTable, t)

\* the first error among the results rs, in order, or <<>> when all are Ok
FirstErr(rs) ==
  LET bad == {i \in 1..Len(rs) : ~IsOk(rs[i])}
  IN IF bad = {} THEN <<>> ELSE << rs[CHOOSE i \in bad : \A j \in bad : i <= j] >>

\* StatusInquiryResponse::from_bytes
StatusFromBytes(s) ==
  LET tok == [i \in 1..Len(SplitOn(s, 32)) |-> Utf8Lossy(SplitOn(s, 32)[i])]
  IN IF Len(tok) # 8 THEN Err("InvalidFormat")
     ELSE
       LET st == UPSStatusFromBytes(AsBytes(tok[8]))
       IN IF ~IsOk(st) THEN st
          ELSE
            LET cap == BatteryCapacity(st.val.offline, tok[6])
            IN IF ~IsOk(cap) THEN cap
               ELSE
                 LET fields == << ParseF32(tok[1]), ParseF32(tok[2]), ParseF32(tok[3]),
                                  ParseU32(tok[4]), ParseF32(tok[5]), ParseF32(tok[7]) >>
                     bad == FirstErr(fields)
                 IN IF bad # <<>> THEN bad[1]
                    ELSE Ok([input_voltage |-> fields[1].val,
                             input_fault_voltage |-> fields[2].val,
                             output_voltage |-> fields[3].val,
                             output_load_percentage |-> fields[4].val,
                             input_frequency |-> fields[5].val,
                             battery_capacity |-> cap.val,
                             battery_capacity_parameter |-> tok[6],
                             temperature |-> fields[6].val,
                             ups_status |-> st.val])

\* AlarmInquiryResponse::from_bytes
AlarmFromBytes(s) ==
  LET head == GetRange(s, 0, 2)
  IN IF head = <<>> THEN Err("InvalidFormat")
     ELSE
       LET f == [i \in 1..Len(head[1]) |-> head[1][i] = 49]
       IN IF Len(f) # 2 THEN Err("InvalidFormat")
          ELSE Ok([inverter_on |-> f[1], ups_alarm_on |-> f[2]])

\* ExtraPowerInfoResponse::from_bytes.  A scaled field is kept as the pair
\* <<integer, divisor>>: field * 0.1 is <<field, 10>>.
ExtraPowerInfoFromBytes(s) ==
  LET ch == Chunks(s, 2)
      conv == [i \in 1..Len(ch) |-> TryIntoArray(ch[i], 2)]
      bad == FirstErr(conv)
  IN IF bad # <<>> THEN bad[1]
     ELSE
       LET v == [i \in 1..Len(ch) |-> U16FromBeBytes(ch[i])]
       IN IF Len(v) # 10 THEN Err("InvalidFormat")
          ELSE Ok([ups_output_freq |-> <<v[1], 10>>,
                   battery_voltage |-> <<v[4], 100>>,
                   battery_cut_voltage |-> <<v[5], 100>>,
                   ups_wattage |-> v[6],
                   error_code |-> v[7],
                   load_current |-> <<v[8], 10>>])

\* AutonomyResponse::from_bytes: the duration in seconds
AutonomyFromBytes(s) ==
  LET a == TryIntoArray(s, 4)
  IN IF ~IsOk(a) THEN a ELSE Ok([time |-> U32AsU64(U32FromBeBytes(a.val))])

\* a variant of BatteryLifeFromBytes that multiplies before widening to u64,
\* so that the product wraps at 2^32
BatteryLifeFromBytes_U32(s) ==
  LET a == TryIntoArray(s, 4)
      p == MulU64(MulU64(U32AsU64(U32FromBeBytes(a.val)), 60), 60)
  IN IF ~IsOk(a) THEN a ELSE Ok([time |-> <<0, 0, p[3], p[4]>>])

\* BatteryLifeResponse::from_bytes: the duration in seconds (u64 arithmetic)
BatteryLifeFromBytes(s) ==
  LET a == TryIntoArray(s, 4)
  IN IF ~IsOk(a) THEN a
     ELSE Ok([time |-> MulU64(MulU64(U32AsU64(U32FromBeBytes(a.val)), 60), 60)])

\* UPSInformation::from_bytes: split_at(mid) panics when mid > len
UPSInformationFromBytes(s) ==
  IF Len(s) < 15 THEN Panic("split_at: mid > len")
  ELSE IF Len(s) - 15 < 10 THEN Panic("split_at: mid > len")
  ELSE IF Len(s) - 25 < 10 THEN Panic("split_at: mid > len")
  ELSE Ok([manufacturer_name |-> Trim(Utf8Lossy(SubSeq(s, 1, 15))),
           model |-> Trim(Utf8Lossy(SubSeq(s, 16, 25))),
           version |-> Trim(Utf8Lossy(SubSeq(s, 26, 35)))])

\* UPSRating::from_bytes
UPSRatingFromBytes(s) ==
  LET tok == [i \in 1..Len(SplitOn(s, 32)) |-> Utf8Lossy(SplitOn(s, 32)[i])]
  IN IF Len(tok) # 4 THEN Err("InvalidFormat")
     ELSE
       LET fields == << ParseF32(tok[1]), ParseU32(tok[2]),
                        ParseF32(tok[3]), ParseF32(tok[4]) >>
           bad == FirstErr(fields)
       IN IF bad # <<>> THEN bad[1]
          ELSE Ok([output_rating_voltage |-> fields[1].val,
                   output_rating_current |-> fields[2].val,
                   battery_voltage |-> fields[3].val,
                   output_rating_frequency |-> fields[4].val])

\* T::from_bytes for the response type T of a query
FromBytes(kind, s) ==
  CASE kind = "Status" -> StatusFromBytes(s)
    [] kind = "Alarm" -> AlarmFromBytes(s)
    [] kind = "ExtraPowerInfo" -> ExtraPowerInfoFromBytes(s)
    [] kind = "Autonomy" -> AutonomyFromBytes(s)
    [] kind = "BatteryLife" -> BatteryLifeFromBytes(s)
    [] kind = "UPSInformation" -> UPSInformationFromBytes(s)
    [] kind = "UPSRating" -> UPSRatingFromBytes(s)

(***************************************************************************)
(* Inputs of the decoders.                                                 *)
(***************************************************************************)
\* bytes of the raw slices: NUL, '0', '1', 0xFF
RawBytes == {0, 48, 49, 255}

SeqsUpTo(S, n) == UNION {[1..k -> S] : k \in 0..n}

RawSlices == SeqsUpTo(RawBytes, MaxLen)

\* tokens joined by single spaces
Join(ts) ==
  LET RECURSIVE go(_, _)
      go(i, out) ==
        IF i > Len(ts) THEN out
        ELSE go(i + 1, IF i = 1 THEN ts[i] ELSE out \o <<32>> \o ts[i])
  IN go(1, <<>>)

\* a token list and its neighbours with one field less, one more, a trailing
\* space and a doubled space
Variants(ts) ==
  { ts, SubSeq(ts, 2, Len(ts)), Append(ts, <<48>>), Append(ts, <<>>),
    <<ts[1], <<>>>> \o SubSeq(ts, 2, Len(ts)) }

\* "2.05" "10" "13.5" "1.67" / "13.4" "2.050" "2.0" "" (not table literals)
BatteryTokens ==
  { <<50, 46, 48, 53>>, <<49, 48>>, <<49, 51, 46, 53>>, <<49, 46, 54, 55>>,
    <<49, 51, 46, 52>>, <<50, 46, 48, 53, 48>>, <<50, 46, 48>>, <<>> }

\* "00110000" "00001000" "0000100" "000010000" "00001" 0xFF
FlagTokens ==
  { <<48, 48, 49, 49, 48, 48, 48, 48>>, <<48, 48, 48, 48, 49, 48, 48, 48>>,
    <<48, 48, 48, 48, 49, 48, 48>>, <<48, 48, 48, 48, 49, 48, 48, 48, 48>>,
    <<48, 48, 48, 48, 49, 255>> }

\* status frames around "208.4 140.0 208.4 034 59.9 2.05 35.0 00110000"
StatusTokenLists ==
  { << t1, <<49, 52, 48, 46, 48>>, <<50, 48, 56, 46, 52>>, t4, <<53, 57, 46, 57>>,
       t6, t7, t8 >> :
      t1 \in {<<50, 48, 56, 46, 52>>, <<120>>, <<>>},
      t4 \in {<<48, 51, 52>>, <<45, 49>>},
      t6 \in BatteryTokens,
      t7 \in {<<51, 53, 46, 48>>, <<51, 120>>},
      t8 \in FlagTokens }

\* rating frames around "230.0 008 072.0 50.0"
RatingTokenLists ==
  { << t1, t2, <<48, 55, 50, 46, 48>>, t4 >> :
      t1 \in {<<50, 51, 48, 46, 48>>, <<120>>, <<>>},
      t2 \in {<<48, 48, 56>>, <<56, 46, 48>>},
      t4 \in {<<53, 48, 46, 48>>, <<46>>} }

TextFrames ==
  { Join(v) : v \in UNION { Variants(ts) : ts \in StatusTokenLists \cup RatingTokenLists } }

Fill(b, n) == [i \in 1..n |-> b]

\* the extra-power-info frame of extra_power_info_test, 20 bytes
ExtraPowerInfoSample ==
  <<1, 244, 0, 0, 0, 0, 5, 110, 3, 182, 2, 21, 0, 0, 0, 33, 0, 0, 0, 0>>

\* an extra-power-info frame whose ten fields are all different and not 0:
\* 500, 7, 9, 1390, 950, 533, 322, 33, 11, 13
ExtraPowerInfoDistinct ==
  <<1, 244, 0, 7, 0, 9, 5, 110, 3, 182, 2, 21, 1, 66, 0, 33, 0, 11, 0, 13>>

\* a device-info frame: "ALPHA" padded to 15, "C1" padded to 10, "V2" padded to 10
UPSInformationSample ==
  <<65, 76, 80, 72, 65>> \o Fill(32, 10) \o <<32, 67, 49>> \o Fill(32, 7)
    \o <<86, 50>> \o Fill(32, 8)

\* the fixed-layout frames, each also one or two bytes short and too long
LongSlices ==
  UNION { { f, SubSeq(f, 1, Len(f) - 1), SubSeq(f, 1, Len(f) - 2), f \o <<0>>, f \o <<0, 0>> } :
            f \in {ExtraPowerInfoSample, ExtraPowerInfoDistinct, UPSInformationSample} }
    \cup { SubSeq(UPSInformationSample, 1, n) : n \in {14, 15, 24, 25} }

\* flag strings given to UPSStatus::from_bytes on their own: the flag tokens,
\* "11111111", and eight bytes that are mostly neither '0' nor '1'
FlagSlices ==
  FlagTokens \cup { Fill(49, 8), <<49, 50, 0, 255, 32, 49, 48, 49>> }

\* the 4-byte values of running_time_test, running_time_test2 and
\* battery_life_test: 1348, 65793 and 87600
DurationSamples == { <<0, 0, 5, 68>>, <<0, 1, 1, 1>>, <<0, 1, 86, 48>> }

DecoderInputs ==
  RawSlices \cup TextFrames \cup LongSlices \cup FlagSlices \cup DurationSamples

(***************************************************************************)
(* Initial states of the three parts.                                      *)
(***************************************************************************)
InitDecoder ==
  /\ dpc = "input"
  /\ dkind = "-"
  /\ din = <<>>
  /\ dout = NoResult

InitSerial ==
  /\ spc = "idle"
  /\ squery = "-"
  /\ rx = <<>>
  /\ acc = <<>>
  /\ ops = <<>>
  /\ delivered = <<>>
  /\ readFailed = FALSE
  /\ sframe = <<>>
  /\ sres = NoResult
  /\ startLen = 0

InitHid ==
  /\ hpc = "idle"
  /\ hquery = "-"
  /\ hbuf = <<>>
  /\ hrep = <<>>
  /\ hreads = 0
  /\ hframe = <<>>
  /\ hres = NoResult

(***************************************************************************)
(* The decoders applied to every input.                                    *)
(***************************************************************************)
InitDecode ==
  /\ dpc = "input"
  /\ dkind = "-"
  /\ din \in DecoderInputs
  /\ dout = NoResult
  /\ InitSerial
  /\ InitHid

Decode(kind) ==
  /\ dpc = "input"
  /\ dpc' = "done"
  /\ dkind' = kind
  /\ dout' = FromBytes(kind, din)
  /\ UNCHANGED <<din, svars, hvars>>

DecodeStatus == Decode("Status")
DecodeAlarm == Decode("Alarm")
DecodeExtraPowerInfo == Decode("ExtraPowerInfo")
DecodeAutonomy == Decode("Autonomy")
DecodeBatteryLife == Decode("BatteryLife")
DecodeUPSInformation == Decode("UPSInformation")
DecodeUPSRating == Decode("UPSRating")

\* UPSStatus::from_bytes called on its own
DecodeUPSStatus ==
  /\ dpc = "input"
  /\ dpc' = "done"
  /\ dkind' = "UPSStatus"
  /\ dout' = UPSStatusFromBytes(din)
  /\ UNCHANGED <<din, svars, hvars>>

NextDecode ==
  \/ DecodeStatus
  \/ DecodeAlarm
  \/ DecodeExtraPowerInfo
  \/ DecodeAutonomy
  \/ DecodeBatteryLife
  \/ DecodeUPSInformation
  \/ DecodeUPSRating
  \/ DecodeUPSStatus

SpecDecode == InitDecode /\ [][NextDecode]_vars

(***************************************************************************)
(* CPlusSerialInterface: one query at a time over a serial port.  The port *)
(* is the environment: clear, write_all and read_exact may each fail, and  *)
(* the device puts its response on the line one byte at a time.            *)
(***************************************************************************)
\* bytes the device sends in the model: CR, '(' and '1'
SerialBytes == {END_BYTE, 40, 49}

\* the command of each query method (lines 134-170)
Cmd(kind) ==
  CASE kind = "Status" -> CMD_STATUS_INQUIRY
    [] kind = "Alarm" -> CMD_ALARM_INQUIRY
    [] kind = "ExtraPowerInfo" -> CMD_EXTRA_POWER_PARAMETERS_INFO
    [] kind = "Autonomy" -> CMD_AUTONOMY
    [] kind = "BatteryLife" -> CMD_BATTERY_LIFE
    [] kind = "UPSInformation" -> CMD_UPS_INFORMATION
    [] kind = "UPSRating" -> CMD_RATING_INFORMATION

PortOp(op, data, ok) == [op |-> op, data |-> data, ok |-> ok]

\* a variant of StripStart that keeps the start byte
StripStart_KeepStart(buf) == GetFrom(buf, 0)

\* `raw_query.get(1..)`: the response without its start byte
StripStart(buf) == GetFrom(buf, 1)

\* a query method is called: processed_query enters raw_query
SerialQuery(kind) ==
  /\ spc \in {"idle", "done"}
  /\ spc' = "clear"
  /\ squery' = kind
  /\ acc' = <<>>
  /\ ops' = <<>>
  /\ delivered' = <<>>
  /\ readFailed' = FALSE
  /\ sframe' = <<>>
  /\ sres' = NoResult
  /\ startLen' = Len(rx)
  /\ UNCHANGED <<rx, dvars, hvars>>

\* the query returns r without having read
SerialReturn(r) ==
  /\ spc' = "done"
  /\ sres' = r
  /\ UNCHANGED <<squery, startLen, acc, delivered, readFailed, sframe, dvars, hvars>>

\* a variant of ClearOk that leaves the buffered bytes where they are
ClearOk_NoDiscard ==
  /\ spc = "clear"
  /\ ops' = Append(ops, PortOp("clear", <<>>, TRUE))
  /\ spc' = "write_cmd"
  /\ UNCHANGED <<squery, startLen, rx, acc, delivered, readFailed, sframe, sres, dvars, hvars>>

\* self.port.clear(ClearBuffer::All)?
ClearOk ==
  /\ spc = "clear"
  /\ rx' = <<>>
  /\ ops' = Append(ops, PortOp("clear", <<>>, TRUE))
  /\ spc' = "write_cmd"
  /\ UNCHANGED <<squery, startLen, acc, delivered, readFailed, sframe, sres, dvars, hvars>>

ClearFail ==
  /\ spc = "clear"
  /\ ops' = Append(ops, PortOp("clear", <<>>, FALSE))
  /\ UNCHANGED rx
  /\ SerialReturn(Err("SerialPort"))

\* write_data: self.port.write_all(msg)?
WriteCmdOk ==
  /\ spc = "write_cmd"
  /\ ops' = Append(ops, PortOp("write", Cmd(squery), TRUE))
  /\ spc' = "write_end"
  /\ UNCHANGED <<squery, startLen, rx, acc, delivered, readFailed, sframe, sres, dvars, hvars>>

\* a variant of WriteCmdFail that drops the error and goes on to the end byte
WriteCmdFail_Ignored ==
  /\ spc = "write_cmd"
  /\ ops' = Append(ops, PortOp("write", Cmd(squery), FALSE))
  /\ spc' = "write_end"
  /\ UNCHANGED <<squery, startLen, rx, acc, delivered, readFailed, sframe, sres, dvars, hvars>>

WriteCmdFail ==
  /\ spc = "write_cmd"
  /\ ops' = Append(ops, PortOp("write", Cmd(squery), FALSE))
  /\ UNCHANGED rx
  /\ SerialReturn(Err("Io"))

\* write_data: self.port.write_all(&[END_BYTE])?
WriteEndOk ==
  /\ spc = "write_end"
  /\ ops' = Append(ops, PortOp("write", <<END_BYTE>>, TRUE))
  /\ spc' = "read"
  /\ UNCHANGED <<squery, startLen, rx, acc, delivered, readFailed, sframe, sres, dvars, hvars>>

WriteEndFail ==
  /\ spc = "write_end"
  /\ ops' = Append(ops, PortOp("write", <<END_BYTE>>, FALSE))
  /\ UNCHANGED rx
  /\ SerialReturn(Err("Io"))

\* the device answers the command that was written, byte by byte; bytes may
\* still arrive after the query returned
DeviceSend(b) ==
  /\ spc \in {"read", "done"}
  /\ Len(ops) >= 3 /\ ops[3].ok
  /\ Len(delivered) < MaxResp
  /\ rx' = Append(rx, b)
  /\ delivered' = Append(delivered, b)
  /\ UNCHANGED <<spc, squery, startLen, acc, ops, readFailed, sframe, sres, dvars, hvars>>

\* read_data returned Ok(buf): raw_query returns it, processed_query strips
\* the start byte and decodes
SerialFinish(buf) ==
  /\ spc' = "done"
  /\ sframe' = StripStart(buf)
  /\ sres' = IF StripStart(buf) = <<>> THEN Err("InvalidFormat")
             ELSE FromBytes(squery, StripStart(buf)[1])
  /\ UNCHANGED <<squery, startLen, delivered, dvars, hvars>>

\* read_data: read_exact returned a byte that is not the end byte
ReadByte ==
  /\ spc = "read"
  /\ rx # <<>>
  /\ Head(rx) # END_BYTE
  /\ rx' = Tail(rx)
  /\ ops' = Append(ops, PortOp("read", <<>>, TRUE))
  /\ acc' = Append(acc, Head(rx))
  /\ UNCHANGED <<spc, squery, startLen, delivered, readFailed, sframe, sres, dvars, hvars>>

\* read_data: read_exact returned the end byte: break
ReadEnd ==
  /\ spc = "read"
  /\ rx # <<>>
  /\ Head(rx) = END_BYTE
  /\ rx' = Tail(rx)
  /\ ops' = Append(ops, PortOp("read", <<>>, TRUE))
  /\ UNCHANGED <<acc, readFailed>>
  /\ SerialFinish(acc)

\* read_data: read_exact timed out (nothing arrived): the while loop ends
ReadTimeout ==
  /\ spc = "read"
  /\ rx = <<>>
  /\ ops' = Append(ops, PortOp("read", <<>>, FALSE))
  /\ readFailed' = TRUE
  /\ UNCHANGED <<rx, acc>>
  /\ SerialFinish(acc)

\* read_data: read_exact failed with another I/O error: the while loop ends
ReadIoError ==
  /\ spc = "read"
  /\ ops' = Append(ops, PortOp("read", <<>>, FALSE))
  /\ readFailed' = TRUE
  /\ UNCHANGED <<rx, acc>>
  /\ SerialFinish(acc)

InitSerialSpec == InitDecoder /\ InitSerial /\ InitHid

NextSerial ==
  \/ \E kind \in Kinds : SerialQuery(kind)
  \/ ClearOk
  \/ ClearFail
  \/ WriteCmdOk
  \/ WriteCmdFail
  \/ WriteEndOk
  \/ WriteEndFail
  \/ \E b \in SerialBytes : DeviceSend(b)
  \/ ReadByte
  \/ ReadEnd
  \/ ReadTimeout
  \/ ReadIoError

SpecSerial == InitSerialSpec /\ [][NextSerial]_vars

(***************************************************************************)
(* CPlusHidInterface: polls one feature report until it holds a frame of   *)
(* the wanted type.  The device is the environment: a read fails, or it    *)
(* writes a report of any length up to the buffer's into the buffer's      *)
(* front and leaves the rest of the buffer as it was.                      *)
(***************************************************************************)
\* bytes of a report in the model: NUL, CR, '#' and '('
HidBytes == {0, END_BYTE, RATING_MSG_PREFIX, STATUS_MSG_PREFIX}

Reports == SeqsUpTo(HidBytes, HidBufLen)

HidSupported == {"Status", "UPSRating"}

\* the start_idx each supported query passes: Some(tag) as <<tag>>
StartIdx(kind) ==
  IF kind = "Status" THEN <<STATUS_MSG_PREFIX>> ELSE <<RATING_MSG_PREFIX>>

\* read_raw_data on success: the report id goes to buf[0], then
\* get_feature_report overwrites the first Len(rep) bytes of buf
ReadRaw(buf, rep) ==
  [i \in 1..Len(buf) |->
     IF i <= Len(rep) THEN rep[i]
     ELSE IF i = 1 THEN DATA_FEATURE_REPORT ELSE buf[i]]

\* a variant of Accepts that does not look at the byte after the delimiter
Accepts_AnyPadding(buf, start_idx) ==
  LET cr_idx == Position(buf, END_BYTE)
  IN /\ cr_idx # -1
     /\ IF start_idx = <<>> THEN TRUE ELSE buf[1] = start_idx[1]

\* the test of read_data's loop body: Some(cr_idx) and the break condition
Accepts(buf, start_idx) ==
  LET cr_idx == Position(buf, END_BYTE)
  IN /\ cr_idx # -1
     /\ IF cr_idx + 1 = Len(buf) THEN TRUE ELSE buf[cr_idx + 2] = 0
     /\ IF start_idx = <<>> THEN TRUE ELSE buf[1] = start_idx[1]

\* query_ups_status / query_ups_rating: read_processed_data allocates a
\* zeroed buffer and enters read_data's loop
HidQuery(kind) ==
  /\ hpc \in {"idle", "done"}
  /\ hpc' = "poll"
  /\ hquery' = kind
  /\ hbuf' = Fill(0, HidBufLen)
  /\ hrep' = <<>>
  /\ hreads' = 0
  /\ hframe' = <<>>
  /\ hres' = NoResult
  /\ UNCHANGED <<dvars, svars>>

\* the five other query methods: unimplemented!()
HidUnimplemented(kind) ==
  /\ hpc \in {"idle", "done"}
  /\ hpc' = "done"
  /\ hquery' = kind
  /\ hbuf' = <<>>
  /\ hrep' = <<>>
  /\ hreads' = 0
  /\ hframe' = <<>>
  /\ hres' = Panic("not implemented: HID interface USB v0.2 only supports status and rating queries")
  /\ UNCHANGED <<dvars, svars>>

\* one iteration of read_data's loop in which get_feature_report fails
HidReadFail ==
  /\ hpc = "poll"
  /\ hreads < MaxReads
  /\ hbuf' = [hbuf EXCEPT ![1] = DATA_FEATURE_REPORT]
  /\ hrep' = <<>>
  /\ hreads' = hreads + 1
  /\ hpc' = "done"
  /\ hres' = Err("HidApi")
  /\ UNCHANGED <<hquery, hframe, dvars, svars>>

\* one iteration that reads report rep and goes round again
HidReadReject(rep) ==
  /\ hpc = "poll"
  /\ hreads < MaxReads
  /\ ~Accepts(ReadRaw(hbuf, rep), StartIdx(hquery))
  /\ hbuf' = ReadRaw(hbuf, rep)
  /\ hrep' = rep
  /\ hreads' = hreads + 1
  /\ UNCHANGED <<hpc, hquery, hframe, hres, dvars, svars>>

\* one iteration that reads report rep and breaks; read_processed_data then
\* takes buf.get(1..cr_idx) and decodes it
HidReadAccept(rep) ==
  LET buf == ReadRaw(hbuf, rep)
      cr_idx == Position(buf, END_BYTE)
      processed_bytes == GetRange(buf, 1, cr_idx)
  IN /\ hpc = "poll"
     /\ hreads < MaxReads
     /\ Accepts(buf, StartIdx(hquery))
     /\ hbuf' = buf
     /\ hrep' = rep
     /\ hreads' = hreads + 1
     /\ hpc' = "done"
     /\ hframe' = processed_bytes
     /\ hres' = IF processed_bytes = <<>> THEN Err("InvalidFormat")
                ELSE FromBytes(hquery, processed_bytes[1])
     /\ UNCHANGED <<hquery, dvars, svars>>

InitHidSpec == InitDecoder /\ InitSerial /\ InitHid

NextHid ==
  \/ \E kind \in HidSupported : HidQuery(kind)
  \/ \E kind \in Kinds \ HidSupported : HidUnimplemented(kind)
  \/ HidReadFail
  \/ \E rep \in Reports : HidReadReject(rep)
  \/ \E rep \in Reports : HidReadAccept(rep)

SpecHid == InitHidSpec /\ [][NextHid]_vars

(***************************************************************************)
(* Properties.                                                             *)
(***************************************************************************)
FirstIndex(s, x) == CHOOSE i \in 1..Len(s) : s[i] = x /\ \A j \in 1..(i - 1) : s[j] # x

Count(s, x) == Cardinality({i \in 1..Len(s) : s[i] = x})

\* C1: when read_exact fails (a timeout or another I/O error) before the end
\* byte was read, the serial query returns a transport I/O error and hands
\* nothing to a decoder.
C1_ReadFailureIsTransportError ==
  (spc = "done" /\ readFailed) => (IsErr(sres, "Io") /\ sframe = <<>>)

\* C2: a HID status or rating query stops polling with a frame for the
\* decoder only if, in the buffer, the first CR is the last byte or is followed
\* by a 0 byte and the first byte is the query's tag; after a read that left
\* any other buffer the query is still polling.
C2_HidAcceptRule ==
  LET crs == {i \in 1..Len(hbuf) : hbuf[i] = 13}
      tag == IF hquery = "Status" THEN 40 ELSE 35
      good == /\ crs # {}
              /\ LET p == CHOOSE i \in crs : \A j \in crs : i <= j
                 IN (p = Len(hbuf) \/ hbuf[p + 1] = 0) /\ hbuf[1] = tag
  IN (hquery \in {"Status", "UPSRating"} /\ hreads > 0) =>
       /\ (hpc = "done" /\ hframe # <<>>) => good
       /\ (~good /\ ~IsErr(hres, "HidApi")) => (hpc = "poll" /\ hframe = <<>>)

C2_Witness ==
  /\ hpc = "done"
  /\ hquery = "UPSRating"
  /\ hreads = 2
  /\ hbuf[1] = 35 /\ hbuf[2] = 13 /\ hbuf[3] = 0
  /\ hframe = << <<>> >>

\* C3: on the HID transport the five queries other than status and rating
\* return an "unsupported on this transport" error value, without reading the
\* device and without data.
C3_HidUnsupportedIsError ==
  (hpc = "done" /\ hquery \in {"ExtraPowerInfo", "Alarm", "Autonomy", "BatteryLife",
                               "UPSInformation"}) =>
    (IsErr(hres, "UnsupportedOnTransport") /\ hreads = 0 /\ hframe = <<>>)

\* C4: when the latest report of a HID status query is a complete '('-tagged
\* frame (tag, then bytes up to a CR that ends the report or is followed by 0),
\* the query accepts it and decodes exactly the report's bytes between the tag
\* and the CR, whatever earlier reports left in the buffer, also when the
\* report is shorter than the buffer.
C4_HidFreshFrameAccepted ==
  LET crs == {i \in 1..Len(hrep) : hrep[i] = 13}
      p == CHOOSE i \in crs : \A j \in crs : i <= j
  IN (/\ hquery = "Status"
      /\ hreads >= 2
      /\ crs # {}
      /\ hrep[1] = 40
      /\ (p = Len(hrep) \/ hrep[p + 1] = 0)) =>
       (hpc = "done" /\ hframe = << SubSeq(hrep, 2, p - 1) >>)

\* C5: a serial query clears the input, writes the command bytes as they are,
\* writes one CR and only then reads; nothing is repeated, and a failed clear
\* or write ends the query with that error before any later step.
C5_SerialOrder ==
  LET n == Len(ops)
  IN /\ n >= 1 => (ops[1].op = "clear")
     /\ n >= 2 => /\ ops[2].op = "write"
                  /\ <<squery, ops[2].data>> \in
                       { <<"Status", <<81, 49>>>>, <<"Alarm", <<81, 52>>>>,
                         <<"ExtraPowerInfo", <<81, 53>>>>, <<"Autonomy", <<65, 116>>>>,
                         <<"BatteryLife", <<66, 76>>>>, <<"UPSInformation", <<73>>>>,
                         <<"UPSRating", <<70>>>> }
     /\ n >= 3 => (ops[3].op = "write" /\ ops[3].data = <<13>>)
     /\ \A i \in 4..n : ops[i].op = "read"
     /\ \A i \in 1..(n - 1) : ops[i].ok
     /\ (n \in 1..3 /\ ~ops[n].ok) =>
          /\ spc = "done"
          /\ IsErr(sres, IF n = 1 THEN "SerialPort" ELSE "Io")
          /\ sframe = <<>>
     /\ (n \in 1..3 /\ ops[n].ok) =>
          spc = (CASE n = 1 -> "write_cmd" [] n = 2 -> "write_end" [] n = 3 -> "read")
     /\ spc = "clear" => n = 0

C5_Witness ==
  /\ spc = "done"
  /\ Len(ops) = 3
  /\ ops[1].ok /\ ops[2].ok /\ ~ops[3].ok
  /\ IsErr(sres, "Io")

\* C6: when the device delivers b0 b1 ... bk CR (and maybe more) the decoder
\* gets exactly b1 ... bk: reading stops at the first CR, which is not part of
\* the frame, and what follows it stays unread in the port.
C6_SerialFrame ==
  (spc = "done" /\ Len(ops) >= 4 /\ ~readFailed) =>
    /\ \E i \in 1..Len(delivered) : delivered[i] = 13
    /\ LET p == FirstIndex(delivered, 13)
       IN /\ Len(ops) = 3 + p
          /\ rx = SubSeq(delivered, p + 1, Len(delivered))
          /\ p >= 2 => sframe = << SubSeq(delivered, 2, p - 1) >>
          /\ p = 1 => (sframe = <<>> /\ IsErr(sres, "InvalidFormat"))

C6_Witness ==
  /\ spc = "done"
  /\ ~readFailed
  /\ delivered = <<40, 49, 13, 49>>
  /\ sframe = << <<49>> >>
  /\ rx = <<49>>

\* what each decoder requires of a frame's length
TooShort(kind, s) ==
  CASE kind = "Status" -> Count(s, 32) + 1 < 8
    [] kind = "UPSRating" -> Count(s, 32) + 1 < 4
    [] kind = "Alarm" -> Len(s) < 2
    [] kind = "ExtraPowerInfo" -> Len(s) < 20
    [] kind = "Autonomy" -> Len(s) < 4
    [] kind = "BatteryLife" -> Len(s) < 4
    [] kind = "UPSInformation" -> Len(s) < 35

\* C7: every decoder answers a frame shorter than it requires, the empty frame
\* included, with the error InvalidFormat: no message and no panic.
C7_ShortFrameIsInvalidFormat ==
  (dpc = "done" /\ TooShort(dkind, din)) => IsErr(dout, "InvalidFormat")

\* C8: status decoding looks the battery token up by exact match in the table
\* chosen by the decoded offline flag: "2.05" online is 62, "10" offline is 0,
\* "13.5" offline is 100, and a token that is not a literal of the chosen table
\* fails the decode with InvalidBatteryCapacityParameter.
C8_BatteryTable ==
  LET tok == SplitOn(din, 32)
      flags == UPSStatusFromBytes(AsBytes(Utf8Lossy(tok[8])))
      offline == flags.val.offline
      table == IF offline THEN OfflineTable ELSE OnlineTable
      hits == {i \in 1..Len(table) : table[i][1] = tok[6]}
  IN (dpc = "done" /\ dkind = "Status" /\ Count(din, 32) = 7 /\ IsOk(flags)) =>
       /\ hits = {} => IsErr(dout, "InvalidBatteryCapacityParameter")
       /\ hits # {} =>
            /\ ~IsErr(dout, "InvalidBatteryCapacityParameter")
            /\ IsOk(dout) => \E i \in hits : dout.val.battery_capacity = table[i][2]
       /\ (IsOk(dout) /\ tok[6] = <<50, 46, 48, 53>> /\ ~offline) =>
            dout.val.battery_capacity = 62
       /\ (IsOk(dout) /\ tok[6] = <<49, 48>> /\ offline) => dout.val.battery_capacity = 0
       /\ (IsOk(dout) /\ tok[6] = <<49, 51, 46, 53>> /\ offline) =>
            dout.val.battery_capacity = 100
       /\ IsOk(dout) => (dout.val.ups_status.offline = offline)

C8_Witness ==
  /\ dpc = "done"
  /\ dkind = "Status"
  /\ din = Join(<< <<50, 48, 56, 46, 52>>, <<49, 52, 48, 46, 48>>, <<50, 48, 56, 46, 52>>,
                   <<48, 51, 52>>, <<53, 57, 46, 57>>, <<50, 46, 48, 53>>,
                   <<51, 53, 46, 48>>, <<48, 48, 49, 49, 48, 48, 48, 48>> >>)
  /\ IsOk(dout)
  /\ dout.val.battery_capacity = 62

\* C9: a status frame must split on single spaces into exactly 8 tokens and a
\* rating frame into exactly 4 (one more than the frame has spaces); with any
\* other count the decoder returns InvalidFormat and no message.
C9_TokenCount ==
  dpc = "done" =>
    /\ (dkind = "Status" /\ Count(din, 32) + 1 # 8) => IsErr(dout, "InvalidFormat")
    /\ (dkind = "UPSRating" /\ Count(din, 32) + 1 # 4) => IsErr(dout, "InvalidFormat")
    /\ (dkind = "UPSRating" /\ Count(din, 32) + 1 = 4) => ~IsErr(dout, "InvalidFormat")

C9_Witness ==
  /\ dpc = "done"
  /\ dkind = "Status"
  /\ din = Join(<< <<50, 48, 56, 46, 52>>, <<49, 52, 48, 46, 48>>, <<50, 48, 56, 46, 52>>,
                   <<48, 51, 52>>, <<53, 57, 46, 57>>, <<50, 46, 48, 53>>,
                   <<51, 53, 46, 48>>, <<48, 48, 49, 49, 48, 48, 48, 48>>, <<>> >>)
  /\ IsErr(dout, "InvalidFormat")

\* C10: the alarm decoder accepts exactly 2 bytes, inverter_on from the first
\* and ups_alarm_on from the second; any other length is InvalidFormat.
C10_AlarmExactlyTwoBytes ==
  (dpc = "done" /\ dkind = "Alarm") =>
    IF Len(din) = 2
      THEN /\ IsOk(dout)
           /\ dout.val.inverter_on = (din[1] = 49)
           /\ dout.val.ups_alarm_on = (din[2] = 49)
      ELSE IsErr(dout, "InvalidFormat")

\* C11: UPSStatus decoding of 8 bytes sets utility_fail, battery_low,
\* bypass_or_transformer_active, battery_abnormal, offline, test_in_progress,
\* shutdown_active, beeper_on from the bytes in that order, each true exactly
\* for '1'; any other length is InvalidFormat; and the ups_status of a decoded
\* status message is the UPSStatus decoded from the message's 8th token.
C11_FlagsPositional ==
  dpc = "done" =>
    /\ dkind = "UPSStatus" =>
         IF Len(din) = 8
           THEN /\ IsOk(dout)
                /\ dout.val = [utility_fail |-> din[1] = 49,
                               battery_low |-> din[2] = 49,
                               bypass_or_transformer_active |-> din[3] = 49,
                               battery_abnormal |-> din[4] = 49,
                               offline |-> din[5] = 49,
                               test_in_progress |-> din[6] = 49,
                               shutdown_active |-> din[7] = 49,
                               beeper_on |-> din[8] = 49]
           ELSE IsErr(dout, "InvalidFormat")
    /\ (dkind = "Status" /\ IsOk(dout)) =>
         LET token == SplitOn(din, 32)[8]
         IN /\ IsOk(UPSStatusFromBytes(token))
            /\ dout.val.ups_status = UPSStatusFromBytes(token).val

\* C12: for 4 bytes read as the big-endian u32 v, the autonomy decoder gives
\* v seconds and the battery-life decoder v * 3600 seconds, exactly, for every
\* v up to 2^32 - 1 (1348 gives 1348 s and 4,852,800 s); an input that is not
\* 4 bytes long is an error for both.  With v = hi * 2^16 + lo, v * 3600 is
\* (hi * 3600 + (lo * 3600) div 2^16) * 2^16 + (lo * 3600) mod 2^16.
C12_Durations ==
  (dpc = "done" /\ dkind \in {"Autonomy", "BatteryLife"}) =>
    IF Len(din) = 4
      THEN LET hi == din[1] * 256 + din[2]
               lo == din[3] * 256 + din[4]
               low == lo * 3600
               high == hi * 3600 + low \div 65536
           IN /\ IsOk(dout)
              /\ dkind = "Autonomy" => dout.val.time = <<0, 0, hi, lo>>
              /\ dkind = "BatteryLife" =>
                   dout.val.time = <<0, high \div 65536, high % 65536, low % 65536>>
              /\ (din = <<0, 0, 5, 68>> /\ dkind = "Autonomy") =>
                   dout.val.time = <<0, 0, 0, 1348>>
              /\ (din = <<0, 0, 5, 68>> /\ dkind = "BatteryLife") =>
                   dout.val.time = <<0, 0, 74, 3136>>
      ELSE dout.tag = "Err"

C12_Witness ==
  /\ dpc = "done"
  /\ dkind = "BatteryLife"
  /\ din = <<255, 255, 255, 255>>
  /\ IsOk(dout)
  /\ dout.val.time = <<0, 3599, 65535, 61936>>

\* C13: the extra-power-info decoder accepts exactly 20 bytes, ten big-endian
\* two-byte fields, and any other length is an error without a message; it
\* gives output frequency = field 0 x 0.1, battery voltage = field 3 x 0.01,
\* cut-off voltage = field 4 x 0.01, wattage = field 5, error code = field 6,
\* load current = field 7 x 0.1, whatever the other fields hold ([1,244] is
\* 500 and gives 50.0 Hz).  A scaled value is the pair <<integer, divisor>>.
C13_ExtraPowerInfo ==
  (dpc = "done" /\ dkind = "ExtraPowerInfo") =>
    IF Len(din) = 20
      THEN LET field(k) == din[2 * k + 1] * 256 + din[2 * k + 2]
           IN /\ IsOk(dout)
              /\ dout.val = [ups_output_freq |-> <<field(0), 10>>,
                             battery_voltage |-> <<field(3), 100>>,
                             battery_cut_voltage |-> <<field(4), 100>>,
                             ups_wattage |-> field(5),
                             error_code |-> field(6),
                             load_current |-> <<field(7), 10>>]
              /\ (din[1] = 1 /\ din[2] = 244) => dout.val.ups_output_freq = <<500, 10>>
      ELSE dout.tag = "Err"

C13_Witness ==
  /\ dpc = "done"
  /\ dkind = "ExtraPowerInfo"
  /\ din = <<1, 244, 0, 7, 0, 9, 5, 110, 3, 182, 2, 21, 1, 66, 0, 33, 0, 11, 0, 13>>
  /\ IsOk(dout)
  /\ dout.val.ups_output_freq = <<500, 10>>
  /\ dout.val.error_code = 322

\* C14: a HID status or rating query ends exactly when a feature-report read
\* fails (with that transport error) or a read leaves an acceptable buffer
\* (first CR last or followed by 0, first byte the tag); a query that ended
\* with a frame ended on a report that is itself acceptable and hands over
\* that report's bytes between tag and CR, every earlier report discarded;
\* while every report lacks a CR, has another tag or pads with a non-zero
\* byte, the query keeps polling.
C14_HidTermination ==
  LET tag == IF hquery = "Status" THEN 40 ELSE 35
      Good(b) ==
        LET crs == {i \in 1..Len(b) : b[i] = 13}
        IN /\ crs # {}
           /\ LET q == CHOOSE i \in crs : \A j \in crs : i <= j
              IN (IF q = Len(b) THEN TRUE ELSE b[q + 1] = 0) /\ b[1] = tag
      rcrs == {i \in 1..Len(hrep) : hrep[i] = 13}
      p == CHOOSE i \in rcrs : \A j \in rcrs : i <= j
  IN (hquery \in {"Status", "UPSRating"} /\ hreads > 0) =>
       /\ hpc = "done" <=> (IsErr(hres, "HidApi") \/ Good(hbuf))
       /\ IsErr(hres, "HidApi") => hframe = <<>>
       /\ (hpc = "done" /\ ~IsErr(hres, "HidApi")) =>
            (Good(hrep) /\ hframe = << SubSeq(hrep, 2, p - 1) >>)

\* C15: in any sequence of serial queries, also after a query that failed or
\* left bytes unread, the bytes a query accumulates, and so the frame it hands
\* to its decoder, are the first bytes the device delivered after this query's
\* command was written; none of them was in the port's input buffer when the
\* query began, since the buffer was emptied before the command was written.
C15_NoStaleBytes ==
  /\ spc \in {"write_cmd", "write_end"} => (rx = <<>> /\ acc = <<>>)
  /\ spc = "read" => acc \o rx = delivered
  /\ (spc \in {"read", "done"} /\ squery # "-") =>
       /\ Len(acc) <= Len(delivered)
       /\ acc = SubSeq(delivered, 1, Len(acc))
       /\ sframe \in {<<>>, << SubSeq(delivered, 2, Len(acc)) >>}

C15_Witness ==
  /\ spc = "done"
  /\ startLen > 0
  /\ sframe # <<>>
  /\ sframe[1] # <<>>
  /\ IsOk(sres)

=============================================================================
